---- MODULE Spec2Model ----
(***************************************************************************)
(* Region-geometry resolution and metric pipeline of the MapComponent.     *)
(*                                                                         *)
(* The repository carries two revisions of the component:                  *)
(*   part_002  (map modes, water-mask area guard, metrics default to 0)    *)
(*   part_003  (analyzeRegion, metrics default to null)                    *)
(* The variable build says which revision is running: Spec runs the map    *)
(* clicks and search results of part_002, Spec3 those of part_003, SpecA   *)
(* the map clicks and place-name analyses of part_003.  The pure          *)
(* functions are applied to ranges of inputs: SpecCalc the coordinate      *)
(* normalisation, SpecSan the geometry sanitizer, SpecBox the extraction   *)
(* of bounds, SpecSev the severity classifiers of the map and the sidebar, *)
(* SpecRisk the urban planning score and the composite score, SpecRoute    *)
(* the flood and air-quality prediction routes.  SpecCascade follows one   *)
(* selection of part_002 and records every lookup of its resolution;       *)
(* SpecCascadeFair adds that every pending lookup is eventually answered.  *)
(*                                                                         *)
(* JavaScript is single threaded: an async handler runs without            *)
(* interruption from one network await to the next, and the chain of       *)
(* promise continuations that follows a network response runs in the same  *)
(* task.  Every action below is therefore one such run-to-next-await step. *)
(* Every handler instance ("run") keeps its own closure variables.         *)
(***************************************************************************)
EXTENDS Integers, Sequences, FiniteSets, TLC

\* ------------------------------------------------------------------ bounds
MaxSelections == 2      \* handler runs started in one behaviour
MaxInFlight == 2        \* runs that await a response at the same time
MaxCalcLat == 100       \* latitudes fed to the pure functions: -MaxCalcLat..MaxCalcLat
MaxCalcLng == 400       \* longitudes fed to the pure functions

\* ------------------------------------------------------- values of the model
Builds == {"part_002", "part_003"}

\* JavaScript null / undefined of an object-valued state hook
Null == [type |-> "null"]
\* undefined name (also the empty string: both are falsy)
NoName == <<>>
\* undefined bounds / bbox
NoBox == <<>>
\* JavaScript null of a number-valued field; a number v is <<v>>
NullNum == <<>>
Num(v) == <<v>>

\* canonical [south, west, north, east] boxes the geocoder may answer with
SmallBox == <<0, 0, 5, 10>>
BigBox == <<-45, -90, 45, 90>>
Boxes == {SmallBox, BigBox}
\* entries of an upstream array: a JSON number, the decimal text of a number,
\* and a text that is no number
JsNumber(n) == <<"number", n>>
JsString(n) == <<"string", n>>
NotANumber == <<"text", 0>>
\* the box as GeoJSON writes it (bbox: numbers, [minLon, minLat, maxLon, maxLat]) and
\* as Nominatim writes it (boundingbox: strings, [south, north, west, east])
AsGeoJsonBbox(b) == <<JsNumber(b[2]), JsNumber(b[1]), JsNumber(b[4]), JsNumber(b[3])>>
AsNominatimBbox(b) == <<JsString(b[1]), JsString(b[3]), JsString(b[2]), JsString(b[4])>>

\* raw coordinates of the click events and of the search results
ClickPoints == {<<95, 185>>}
SearchPoints == {<<51, 7>>}
ZoomLevels == {8, 12, 13}

\* the address sub-fields read by getFeatureCountryName, in priority order
NameOrder == <<"city", "town", "village", "municipality", "county", "state",
               "country", "display_name", "name">>
NameKeys == {NameOrder[i] : i \in 1..Len(NameOrder)}
NoProps == [k \in NameKeys |-> NoName]

\* ---------------------------------------------------------- pure functions

\* Math.max(-90, Math.min(90, lat))
Min(a, b) == IF a < b THEN a ELSE b
Max(a, b) == IF a > b THEN a ELSE b
normalizedLat(lat) == Max(-90, Min(90, lat))

\* the JavaScript remainder operator: the result has the sign of the dividend
JsRem(a, n) == IF a >= 0 THEN a % n ELSE -((-a) % n)

\* ((lng + 180) % 360) - 180
normalizedLngUnshifted(lng) == JsRem(lng, 360) - 180
normalizedLng(lng) == JsRem(lng + 180, 360) - 180

\* what evaluating an expression leaves when it raises a TypeError
TypeError == [type |-> "TypeError"]

\* feature.geometry && (its type is 'Polygon' or 'MultiPolygon'); an object
\* without a geometry has no gtype field
isPolygonOrMultiPolygon(feature) ==
  /\ "gtype" \in DOMAIN feature
  /\ (feature.gtype = "Polygon" \/ feature.gtype = "MultiPolygon")

RECURSIVE FilterFeatures(_)
FilterFeatures(fs) ==
  IF fs = <<>> THEN <<>>
  ELSE IF isPolygonOrMultiPolygon(Head(fs))
       THEN <<Head(fs)>> \o FilterFeatures(Tail(fs))
       ELSE FilterFeatures(Tail(fs))

FeatureCollection(fs) == [type |-> "FeatureCollection", features |-> fs]

\* sanitizeFeatureCollection; input.features.filter raises a TypeError when the
\* object says it is a FeatureCollection and has no features array (in the
\* handlers such an answer is the outcome "throw" of the request)
sanitizeKeepAll(input) ==
  IF input = Null THEN Null
  ELSE IF input.type = "FeatureCollection"
       THEN IF "features" \notin DOMAIN input THEN TypeError
            ELSE IF input.features # <<>> THEN FeatureCollection(input.features) ELSE Null
       ELSE IF "gtype" \in DOMAIN input THEN FeatureCollection(<<input>>) ELSE Null
sanitizeFeatureCollection(input) ==
  IF input = Null THEN Null
  ELSE IF input.type = "FeatureCollection"
       THEN IF "features" \notin DOMAIN input THEN TypeError
            ELSE LET polygonFeatures == FilterFeatures(input.features)
                 IN IF polygonFeatures # <<>> THEN FeatureCollection(polygonFeatures)
                    ELSE Null
       ELSE IF isPolygonOrMultiPolygon(input)
            THEN FeatureCollection(<<input>>)
            ELSE Null

RECURSIVE FirstName(_, _)
FirstName(props, i) ==
  IF i > Len(NameOrder) THEN NoName
  ELSE IF props[NameOrder[i]] # NoName THEN props[NameOrder[i]]
       ELSE FirstName(props, i + 1)

\* getFeatureCountryName
getFeatureCountryName(feature) ==
  IF feature = Null THEN NoName ELSE FirstName(feature.props, 1)

\* parseGeoJsonResponse: the sanitized collection and the name of the first feature
parseGeoJsonResponse(input) ==
  [sanitized |-> sanitizeFeatureCollection(input),
   countryName |->
     IF input = Null THEN NoName
     ELSE IF input.type = "FeatureCollection"
          THEN IF input.features = <<>> THEN NoName
               ELSE getFeatureCountryName(Head(input.features))
          ELSE IF input.type = "Feature" THEN getFeatureCountryName(input) ELSE NoName]

\* buildBoundsFeatureCollection: the closed rectangle of a [south, west, north, east] box
buildBoundsFeatureCollection(bounds, properties) ==
  LET south == bounds[1]
      west == bounds[2]
      north == bounds[3]
      east == bounds[4]
  IN FeatureCollection(<<[type |-> "Feature", gtype |-> "Polygon",
                          props |-> properties, bbox |-> NoBox, boundingbox |-> NoBox,
                          req |-> 0,
                          ring |-> << <<west, south>>, <<east, south>>, <<east, north>>,
                                      <<west, north>>, <<west, south>> >>]>>)

\* Number(value) of a number or a string, and whether it is NaN
NumberOf(value) == value[2]
IsNaN(value) == value[1] = "text"
\* parseFloat(value) of the decimal text of a number
parseFloat(value) == value[2]

\* parseNumericArray: the numbers of exactly four entries, or undefined
parseNumericArray(bbox) ==
  IF Len(bbox) # 4 THEN NoBox
  ELSE IF \E i \in 1..4 : IsNaN(bbox[i]) THEN NoBox
  ELSE [i \in 1..4 |-> NumberOf(bbox[i])]

parseGeoJsonBbox(bbox) ==
  LET parsed == parseNumericArray(bbox)
  IN IF parsed = NoBox THEN NoBox ELSE <<parsed[2], parsed[1], parsed[4], parsed[3]>>

parseNominatimBboxUnordered(bbox) == parseNumericArray(bbox)
parseNominatimBbox(bbox) ==
  LET parsed == parseNumericArray(bbox)
  IN IF parsed = NoBox THEN NoBox ELSE <<parsed[1], parsed[3], parsed[2], parsed[4]>>

\* the Feature branch of extractBoundsFromResponse (also its top-level bbox / boundingbox)
extractBoundsFromFeature(feature) ==
  IF parseGeoJsonBbox(feature.bbox) # NoBox THEN parseGeoJsonBbox(feature.bbox)
  ELSE parseNominatimBbox(feature.boundingbox)

RECURSIVE FirstFeatureBounds(_)
FirstFeatureBounds(fs) ==
  IF fs = <<>> THEN NoBox
  ELSE IF extractBoundsFromFeature(Head(fs)) # NoBox THEN extractBoundsFromFeature(Head(fs))
       ELSE FirstFeatureBounds(Tail(fs))

\* extractBoundsFromResponse
extractBoundsFromResponse(data) ==
  IF data = Null THEN NoBox
  ELSE IF parseGeoJsonBbox(data.bbox) # NoBox THEN parseGeoJsonBbox(data.bbox)
  ELSE IF parseNominatimBbox(data.boundingbox) # NoBox THEN parseNominatimBbox(data.boundingbox)
  ELSE IF data.type = "FeatureCollection" THEN FirstFeatureBounds(data.features)
  ELSE NoBox

\* a ?? b on bounds
OrElse(a, b) == IF a # NoBox THEN a ELSE b

\* radius of the fallback circle: zoom > 12 ? 1000 : zoom > 8 ? 4000 : 10000
radiusForZoomInclusive(zoom) == IF zoom >= 12 THEN 1000 ELSE IF zoom >= 8 THEN 4000 ELSE 10000
radiusForZoom(zoom) == IF zoom > 12 THEN 1000 ELSE IF zoom > 8 THEN 4000 ELSE 10000


\* calculateUrbanRiskScore: Math.round(tempRisk * 0.25 + aqiRisk * 0.25 + flood * 0.5)
\* on whole numbers is floor((tempRisk + aqiRisk + 2 * flood + 2) / 4)
calculateUrbanRiskScoreInclusive(temp, aqi, flood) ==
  LET tempRisk == IF temp >= 35 THEN 100 ELSE IF temp >= 30 THEN 80
                  ELSE IF temp >= 25 THEN 50 ELSE IF temp >= 20 THEN 30 ELSE 20
      aqiRisk == IF aqi >= 200 THEN 100 ELSE IF aqi >= 150 THEN 80
                 ELSE IF aqi >= 100 THEN 60 ELSE IF aqi >= 50 THEN 40 ELSE 20
  IN (tempRisk + aqiRisk + 2 * flood + 2) \div 4
calculateUrbanRiskScore(temp, aqi, flood) ==
  LET tempRisk == IF temp > 35 THEN 100 ELSE IF temp > 30 THEN 80
                  ELSE IF temp > 25 THEN 50 ELSE IF temp > 20 THEN 30 ELSE 20
      aqiRisk == IF aqi > 200 THEN 100 ELSE IF aqi > 150 THEN 80
                 ELSE IF aqi > 100 THEN 60 ELSE IF aqi > 50 THEN 40 ELSE 20
  IN (tempRisk + aqiRisk + 2 * flood + 2) \div 4

getHabitability(score) ==
  IF score <= 30 THEN "excellent" ELSE IF score <= 50 THEN "good"
  ELSE IF score <= 70 THEN "moderate" ELSE IF score <= 85 THEN "poor" ELSE "critical"

\* ------------------------------------------------------------------- state
VARIABLES
  build,                    \* which revision of the component runs
  runs,                     \* closure variables and position of every handler run
  nStarted,                 \* runs started so far
  waterReq,                 \* bounds of the water-mask request in flight of each run
  selectedCountryGeometry,  \* useState: the region geometry
  highlightCircle,          \* useState: the fallback circle
  waterGeometry,            \* useState: the water mask
  overlayMetrics,           \* useState: metrics that colour the overlay
  clickedLocation,          \* useState: RegionData of the popup
  apiData,                  \* useState (part_003): metrics of the popup
  isLoadingApi,             \* useState: a metric batch is loading
  isGeneratingGrid,         \* useState (part_003): analyzeRegion is running
  regionAnalysis,           \* useState regionData (part_003): the region analysis;
                            \* urbanPlanningGrid holds the same record as its only cell
  selectedRegion,           \* host state written by onRegionSelect
  published,                \* number of onRegionSelect calls of each run
  calc                      \* input and result of the pure functions (SpecCalc)

vars == <<build, runs, nStarted, waterReq, selectedCountryGeometry, highlightCircle,
          waterGeometry, overlayMetrics, clickedLocation, apiData, isLoadingApi,
          isGeneratingGrid, regionAnalysis, selectedRegion, published, calc>>

uiVars == <<selectedCountryGeometry, highlightCircle, waterGeometry, overlayMetrics,
            clickedLocation, apiData, isLoadingApi, isGeneratingGrid, regionAnalysis,
            selectedRegion>>

Runs == 1..MaxSelections

IdleRun == [pc |-> "idle", kind |-> "none", zoomIdx |-> 0, countryName |-> NoName,
            lastBounds |-> NoBox, fallbackBounds |-> NoBox, propName |-> NoName,
            regionData |-> Null, success |-> FALSE, stored |-> FALSE]
DoneRun == [IdleRun EXCEPT !.pc = "done"]

\* runs that await a geocoding, metric or water-mask response
InFlight == {s \in Runs : runs[s].pc \notin {"idle", "done"} \/ waterReq[s] # NoBox}

NoCalc == [op |-> "none", lat |-> 0, lng |-> 0, outLat |-> 0, outLng |-> 0,
           againLat |-> 0, againLng |-> 0]

InitOf(bld, c) ==
  /\ build = bld
  /\ runs = [s \in Runs |-> IdleRun]
  /\ nStarted = 0
  /\ waterReq = [s \in Runs |-> NoBox]
  /\ selectedCountryGeometry = Null
  /\ highlightCircle = Null
  /\ waterGeometry = Null
  /\ overlayMetrics = Null
  /\ clickedLocation = Null
  /\ apiData = Null
  /\ isLoadingApi = FALSE
  /\ isGeneratingGrid = FALSE
  /\ selectedRegion = Null
  /\ published = [s \in Runs |-> 0]
  /\ regionAnalysis = Null
  /\ calc = c

Init == InitOf("part_002", NoCalc)
Init3 == InitOf("part_003", NoCalc)

\* --------------------------------------------------- what the services answer

\* a feature of a geocoding answer to a request of run s
ServerFeature(s, gtype, props, bbox, boundingbox) ==
  [type |-> "Feature", gtype |-> gtype, props |-> props, bbox |-> bbox,
   boundingbox |-> boundingbox, req |-> s, ring |-> <<>>]

\* names a geocoding answer carries for run s
CityProps(s) == [NoProps EXCEPT !["city"] = <<"city", s>>, !["country"] = <<"country", s>>,
                                !["display_name"] = <<"display", s>>]

GeoJsonAnswer(s, gtypes, props, bbox, boundingbox) ==
  [type |-> "FeatureCollection", bbox |-> bbox, boundingbox |-> NoBox,
   features |-> [i \in 1..Len(gtypes) |->
                   ServerFeature(s, gtypes[i], props, NoBox, boundingbox)]]

\* bodies a reverse request of run s may deliver: nothing usable; a Point with a
\* name and a Nominatim boundingbox; a Point with a malformed bbox; a named
\* LineString + Polygon collection with a GeoJSON bbox; an unnamed MultiPolygon
ReverseAnswers(s) ==
  {GeoJsonAnswer(s, <<>>, NoProps, NoBox, NoBox),
   GeoJsonAnswer(s, <<"Point">>, CityProps(s), NoBox, AsNominatimBbox(SmallBox)),
   GeoJsonAnswer(s, <<"Point">>, NoProps, <<JsNumber(1), JsNumber(2)>>, NoBox),
   GeoJsonAnswer(s, <<"LineString", "Polygon">>, CityProps(s), AsGeoJsonBbox(SmallBox), NoBox),
   GeoJsonAnswer(s, <<"MultiPolygon">>, NoProps, NoBox, NoBox)}

\* bodies a forward search of run s may deliver: as above, and a Point with the
\* GeoJSON bbox of a large region
ForwardAnswers(s) ==
  ReverseAnswers(s)
  \cup {GeoJsonAnswer(s, <<"Point">>, CityProps(s), AsGeoJsonBbox(BigBox), NoBox)}

\* the outcomes of one geocoding request: the request throws (network error,
\* non-2xx status, body that is not JSON) or it delivers a body
Outcomes(answers) ==
  {[throw |-> TRUE, data |-> Null]} \cup {[throw |-> FALSE, data |-> a] : a \in answers}

\* ------------------------------------------------------ geometry resolution

zoomLevelsCoarseFirst == <<8, 10, 12, 14>>
zoomLevels == <<14, 12, 10, 8>>

\* properties bag {name: n}
NameProps(n) == [NoProps EXCEPT !["name"] = n]

\* applyRegionGeometry: the collection it stores (null when nothing area-bearing
\* is left and no bounds are given)
applySanitized(geometry, bounds, properties) ==
  LET sanitized == sanitizeFeatureCollection(geometry)
  IN IF sanitized = Null /\ bounds # NoBox
     THEN buildBoundsFeatureCollection(bounds, properties)
     ELSE sanitized

\* The outcome of a geometry resolution call:
\*   applied    applyRegionGeometry was called, and stored the value sanitized
\*   success, countryName, bounds: the GeometryFetchResult
NoApply(success, countryName, bounds) ==
  [applied |-> FALSE, sanitized |-> Null, success |-> success,
   countryName |-> countryName, bounds |-> bounds]
Applied(sanitized, success, countryName, bounds) ==
  [applied |-> TRUE, sanitized |-> sanitized, success |-> success,
   countryName |-> countryName, bounds |-> bounds]

\* fetchGeometryByName after its request has settled with resp
fetchGeometryByNameOptimistic(countryName, fallbackBounds, properties, resp) ==
  IF resp.throw THEN NoApply(fallbackBounds # NoBox, countryName, fallbackBounds)
  ELSE
    LET sanitized == parseGeoJsonResponse(resp.data).sanitized
        boundsFromResponse == OrElse(extractBoundsFromResponse(resp.data), fallbackBounds)
    IN IF sanitized # Null
       THEN Applied(applySanitized(sanitized, boundsFromResponse, properties),
                    TRUE, countryName, boundsFromResponse)
       ELSE IF boundsFromResponse # NoBox
       THEN Applied(applySanitized(Null, boundsFromResponse, properties),
                    TRUE, countryName, boundsFromResponse)
       ELSE NoApply(FALSE, countryName, fallbackBounds)
fetchGeometryByName(countryName, fallbackBounds, properties, resp) ==
  IF resp.throw THEN NoApply(FALSE, countryName, fallbackBounds)
  ELSE
    LET sanitized == parseGeoJsonResponse(resp.data).sanitized
        boundsFromResponse == OrElse(extractBoundsFromResponse(resp.data), fallbackBounds)
    IN IF sanitized # Null
       THEN Applied(applySanitized(sanitized, boundsFromResponse, properties),
                    TRUE, countryName, boundsFromResponse)
       ELSE IF boundsFromResponse # NoBox
       THEN LET rect == applySanitized(Null, boundsFromResponse, properties)
            IN IF rect # Null
               THEN Applied(rect, TRUE, countryName, boundsFromResponse)
               ELSE Applied(rect, FALSE, countryName, fallbackBounds)
       ELSE NoApply(FALSE, countryName, fallbackBounds)

\* the result fetchCountryGeometry builds from the result of fetchGeometryByName
fromNameResult(r, nameResult) ==
  [nameResult EXCEPT
     !.countryName = IF nameResult.countryName # NoName THEN nameResult.countryName
                     ELSE r.countryName,
     !.bounds = OrElse(nameResult.bounds, OrElse(r.fallbackBounds, r.lastBounds))]

\* one iteration of the zoom loop of fetchCountryGeometry, request settled with resp:
\* the closure variables after it, and the outcome when the loop returns
reverseIterationAborting(r, resp) ==
  IF resp.throw THEN [run |-> r, returns |-> TRUE, out |-> NoApply(FALSE, NoName, NoBox)]
  ELSE
    LET parsed == parseGeoJsonResponse(resp.data)
        boundsFromResponse == OrElse(extractBoundsFromResponse(resp.data), r.lastBounds)
        countryName == IF r.countryName # NoName THEN r.countryName ELSE parsed.countryName
        selectionProperties == NameProps(IF countryName # NoName THEN countryName
                                         ELSE r.propName)
    IN IF parsed.sanitized # Null
       THEN [run |-> r, returns |-> TRUE,
             out |-> Applied(applySanitized(parsed.sanitized, boundsFromResponse,
                                            selectionProperties),
                             TRUE, countryName, boundsFromResponse)]
       ELSE [run |-> [r EXCEPT !.countryName = countryName,
                               !.lastBounds = OrElse(boundsFromResponse, r.lastBounds)],
             returns |-> FALSE, out |-> NoApply(FALSE, NoName, NoBox)]
reverseIteration(r, resp) ==
  IF resp.throw THEN [run |-> r, returns |-> FALSE, out |-> NoApply(FALSE, NoName, NoBox)]
  ELSE
    LET parsed == parseGeoJsonResponse(resp.data)
        boundsFromResponse == OrElse(extractBoundsFromResponse(resp.data), r.lastBounds)
        countryName == IF r.countryName # NoName THEN r.countryName ELSE parsed.countryName
        selectionProperties == NameProps(IF countryName # NoName THEN countryName
                                         ELSE r.propName)
    IN IF parsed.sanitized # Null
       THEN [run |-> r, returns |-> TRUE,
             out |-> Applied(applySanitized(parsed.sanitized, boundsFromResponse,
                                            selectionProperties),
                             TRUE, countryName, boundsFromResponse)]
       ELSE [run |-> [r EXCEPT !.countryName = countryName,
                               !.lastBounds = OrElse(boundsFromResponse, r.lastBounds)],
             returns |-> FALSE, out |-> NoApply(FALSE, NoName, NoBox)]


\* --------------------------------------------------------------- the metrics

\* what the three prediction routes answer for the coordinate of run s
TempOf(s) == 20 + s
AqiOf(s) == 50 + s
FloodOf(s) == 30 + s

\* outcomes of the metric batch of run s: the air-quality fetch rejects or its
\* body is not JSON while the two others deliver (Promise.all rejects), or every
\* route delivers a body, the air-quality one with or without data
MetricOutcomes(s) ==
  {[reject |-> TRUE, temp |-> NullNum, aq |-> NullNum, flood |-> NullNum]}
  \cup {[reject |-> FALSE, temp |-> Num(TempOf(s)), aq |-> a, flood |-> Num(FloodOf(s))] :
          a \in {NullNum, Num(AqiOf(s))}}

\* x || 0 (part_002) and x ?? null (part_003) on an optional number
OrZero(x) == IF x = NullNum \/ x = Num(0) THEN Num(0) ELSE x
OrNull(x) == x

\* fetchApiData: the ApiData it returns, null when the batch rejected
\* (currentAQI is read from the air-quality body: the temperature route has none)
fetchApiDataResult(bld, resp) ==
  IF resp.reject THEN Null
  ELSE IF bld = "part_002"
       THEN [temperature |-> OrZero(resp.temp), airQuality |-> OrZero(resp.aq),
             floodRisk |-> OrZero(resp.flood)]
       ELSE [temperature |-> OrNull(resp.temp), airQuality |-> OrNull(resp.aq),
             floodRisk |-> OrNull(resp.flood)]

MetricsOf(rd) ==
  [temperature |-> rd.temperature, airQuality |-> rd.airQuality, floodRisk |-> rd.floodRisk]

\* the tail of handleMapClick and of the search effect, after fetchApiData returned:
\* the final regionData, the overlay metrics, and whether onRegionSelect is called
afterMetricsPublishOnData(regionData, apiResults) ==
  IF apiResults # Null
  THEN LET rd == [regionData EXCEPT !.temperature = apiResults.temperature,
                                    !.airQuality = apiResults.airQuality,
                                    !.floodRisk = apiResults.floodRisk]
       IN [regionData |-> rd, overlay |-> apiResults, setClicked |-> TRUE, publish |-> 1]
  ELSE [regionData |-> regionData, overlay |-> MetricsOf(regionData),
        setClicked |-> FALSE, publish |-> 0]
afterMetrics(regionData, apiResults) ==
  IF apiResults # Null
  THEN LET rd == [regionData EXCEPT !.temperature = apiResults.temperature,
                                    !.airQuality = apiResults.airQuality,
                                    !.floodRisk = apiResults.floodRisk]
       IN [regionData |-> rd, overlay |-> apiResults, setClicked |-> TRUE, publish |-> 1]
  ELSE [regionData |-> regionData, overlay |-> MetricsOf(regionData),
        setClicked |-> FALSE, publish |-> 1]

\* ------------------------------------------------------------ the handlers

CanStart == nStarted < MaxSelections /\ Cardinality(InFlight) < MaxInFlight

RegionStub(name, lat, lng) ==
  [name |-> name, lat |-> lat, lng |-> lng,
   temperature |-> Num(0), airQuality |-> Num(0), floodRisk |-> Num(0)]

\* what a new map click resets before its first await
clickClearsKeepWater ==
  /\ selectedCountryGeometry' = Null
  /\ highlightCircle' = Null
  /\ waterGeometry' = waterGeometry
clickClears ==
  /\ selectedCountryGeometry' = Null
  /\ highlightCircle' = Null
  /\ waterGeometry' = Null

\* what a new search result resets before its first await
searchClears ==
  /\ selectedCountryGeometry' = Null
  /\ highlightCircle' = Null
  /\ waterGeometry' = Null

\* handleMapClick up to its first await (the zoom-14 reverse request)
handleMapClick(p) ==
  /\ CanStart
  /\ LET s == nStarted + 1
         lat == normalizedLat(p[1])
         lng == normalizedLng(p[2])
         regionData == RegionStub(<<"Location", lat, lng>>, lat, lng)
     IN /\ nStarted' = s
        /\ clickClears
        /\ clickedLocation' = regionData
        /\ apiData' = Null
        /\ overlayMetrics' = Null
        /\ runs' = [runs EXCEPT ![s] =
                      [IdleRun EXCEPT !.pc = "reverse", !.kind = "click", !.zoomIdx = 1,
                                      !.propName = regionData.name,
                                      !.regionData = regionData]]
  /\ UNCHANGED <<build, waterReq, isLoadingApi, isGeneratingGrid, regionAnalysis, selectedRegion,
                 published, calc>>

\* the searchResult effect up to its first await
searchResultEffect(p) ==
  /\ CanStart
  /\ LET s == nStarted + 1
         regionData == RegionStub(<<"search", s>>, p[1], p[2])
     IN /\ nStarted' = s
        /\ searchClears
        /\ clickedLocation' = regionData
        /\ apiData' = Null
        /\ overlayMetrics' = Null
        /\ runs' = [runs EXCEPT ![s] =
                      [IdleRun EXCEPT !.pc = "reverse", !.kind = "search", !.zoomIdx = 1,
                                      !.propName = regionData.name,
                                      !.regionData = regionData]]
  /\ UNCHANGED <<build, waterReq, isLoadingApi, isGeneratingGrid, regionAnalysis, selectedRegion,
                 published, calc>>

\* fetchWaterGeometry refuses boxes of more than 100 square degrees (part_002)
waterAreaTooLarge(bld, bounds) ==
  bld = "part_002" /\ (bounds[3] - bounds[1]) * (bounds[4] - bounds[2]) > 100

\* the caller of fetchCountryGeometry resumes with the outcome out: water-mask
\* request, fallback circle, resolved name, then fetchApiData up to its await
ResumeAfterGeometry(s, r, out, zoom) ==
  LET rd == IF out.countryName # NoName
            THEN [r.regionData EXCEPT !.name = out.countryName]
            ELSE r.regionData
      asksWater == out.bounds # NoBox /\ ~waterAreaTooLarge(build, out.bounds)
  IN
  /\ selectedCountryGeometry' =
       IF out.applied THEN out.sanitized ELSE selectedCountryGeometry
  /\ highlightCircle' =
       IF ~out.success
       THEN [type |-> "circle", center |-> <<r.regionData.lat, r.regionData.lng>>,
             radius |-> radiusForZoom(zoom), zoom |-> zoom]
       ELSE IF out.applied /\ out.sanitized # Null THEN Null ELSE highlightCircle
  /\ waterGeometry' =
       IF out.bounds # NoBox /\ waterAreaTooLarge(build, out.bounds)
       THEN Null ELSE waterGeometry
  /\ waterReq' = IF asksWater THEN [waterReq EXCEPT ![s] = out.bounds] ELSE waterReq
  /\ clickedLocation' =
       IF out.countryName = NoName THEN clickedLocation
       ELSE IF r.kind = "click" \/ clickedLocation = Null THEN rd
       ELSE [clickedLocation EXCEPT !.name = out.countryName]
  /\ isLoadingApi' = TRUE
  /\ runs' = [runs EXCEPT ![s] =
                [IdleRun EXCEPT !.pc = "metrics", !.kind = r.kind, !.regionData = rd,
                                !.success = out.success,
                                !.stored = out.applied /\ out.sanitized # Null]]
  /\ UNCHANGED <<build, nStarted, overlayMetrics, apiData, isGeneratingGrid,
                 regionAnalysis, selectedRegion, published>>

\* the cascade goes on to its next request
ContinueCascade(s, r) ==
  /\ runs' = [runs EXCEPT ![s] = r]
  /\ UNCHANGED <<build, nStarted, waterReq, uiVars, published>>


\* fetchWaterGeometry called by analyzeRegion, then its metric requests
AnalyzeAwaitMetrics(s, r, bounds) ==
  /\ waterGeometry' = IF bounds # NoBox /\ waterAreaTooLarge(build, bounds)
                      THEN Null ELSE waterGeometry
  /\ waterReq' = IF bounds # NoBox /\ ~waterAreaTooLarge(build, bounds)
                 THEN [waterReq EXCEPT ![s] = bounds] ELSE waterReq
  /\ runs' = [runs EXCEPT ![s] = [IdleRun EXCEPT !.pc = "ametrics", !.kind = "analyze",
                                                 !.countryName = r.countryName]]

\* analyzeRegion resumes with the outcome of fetchCountryGeometry: it keeps the
\* resolved name, asks for the water mask, and sets no fallback circle
ResumeAnalyze(s, r, out) ==
  /\ selectedCountryGeometry' =
       IF out.applied THEN out.sanitized ELSE selectedCountryGeometry
  /\ highlightCircle' =
       IF out.applied /\ out.sanitized # Null THEN Null ELSE highlightCircle
  /\ AnalyzeAwaitMetrics(s, [r EXCEPT !.countryName =
                                 IF out.countryName # NoName THEN out.countryName
                                 ELSE r.propName], out.bounds)
  /\ UNCHANGED <<build, nStarted, overlayMetrics, clickedLocation, apiData, isLoadingApi,
                 isGeneratingGrid, regionAnalysis, selectedRegion, published>>

\* map.getZoom() is whatever the user has zoomed to when the caller resumes
Resume(s, r, out) ==
  IF r.kind = "analyze" THEN ResumeAnalyze(s, r, out)
  ELSE \E zoom \in ZoomLevels : ResumeAfterGeometry(s, r, out, zoom)

\* fetchCountryGeometry: the reverse request at zoomLevels[zoomIdx] of run s has
\* settled with resp
ReverseStep(s, resp) ==
  LET r == runs[s]
      it == reverseIteration(r, resp)
  IN /\ r.pc = "reverse"
     /\ IF it.returns THEN Resume(s, r, it.out)
        ELSE IF r.zoomIdx < Len(zoomLevels)
             THEN ContinueCascade(s, [it.run EXCEPT !.zoomIdx = r.zoomIdx + 1])
        ELSE IF it.run.countryName = NoName
             THEN ContinueCascade(s, [it.run EXCEPT !.pc = "country"])
        ELSE ContinueCascade(s, [it.run EXCEPT !.pc = "forward"])

ReverseResponse(s) ==
  /\ \E resp \in Outcomes(ReverseAnswers(s)) : ReverseStep(s, resp)
  /\ UNCHANGED calc

\* names the zoom-3 jsonv2 reverse request may deliver: address.country || display_name
CountryOutcomes(s) == {NoName, <<"country", s>>}

\* fetchCountryGeometry: the country-level fallback request has settled; without a
\* name fetchGeometryByName returns { success: false } at once
CountryStep(s, countryName) ==
  LET r == runs[s]
  IN /\ r.pc = "country"
     /\ IF countryName = NoName
        THEN Resume(s, r, fromNameResult(r, NoApply(FALSE, NoName, NoBox)))
        ELSE ContinueCascade(s, [r EXCEPT !.pc = "forward", !.countryName = countryName])

CountryResponse(s) ==
  /\ \E countryName \in CountryOutcomes(s) : CountryStep(s, countryName)
  /\ UNCHANGED calc

\* fetchGeometryByName: the forward search request of run s has settled with resp
ForwardStep(s, resp) ==
  LET r == runs[s]
      nameResult == fetchGeometryByName(r.countryName,
                                        OrElse(r.fallbackBounds, r.lastBounds),
                                        NameProps(r.propName), resp)
  IN /\ r.pc = "forward"
     /\ Resume(s, r, fromNameResult(r, nameResult))

ForwardResponse(s) ==
  /\ \E resp \in Outcomes(ForwardAnswers(s)) : ForwardStep(s, resp)
  /\ UNCHANGED calc

\* fetchApiData settles and the handler runs to its end
MetricsResponse(s) ==
  /\ runs[s].pc = "metrics"
  /\ \E resp \in MetricOutcomes(s) :
       LET apiResults == fetchApiDataResult(build, resp)
           fin == afterMetrics(runs[s].regionData, apiResults)
       IN /\ isLoadingApi' = FALSE
          /\ apiData' = IF build = "part_003" THEN apiResults ELSE apiData
          /\ overlayMetrics' = fin.overlay
          /\ clickedLocation' = IF fin.setClicked THEN fin.regionData ELSE clickedLocation
          /\ selectedRegion' = IF fin.publish > 0 THEN fin.regionData ELSE selectedRegion
          /\ published' = [published EXCEPT ![s] = @ + fin.publish]
  /\ runs' = [runs EXCEPT ![s] = DoneRun]
  /\ UNCHANGED <<build, nStarted, waterReq, selectedCountryGeometry, highlightCircle,
                 waterGeometry, isGeneratingGrid, regionAnalysis, calc>>

\* ------------------------------------------------------------ the water mask

\* part_002: the Overpass answer is GeoJSON; its polygon features are kept
WaterFeatureChoices == {<<>>, <<"LineString", "MultiPolygon">>, <<"Point">>}

\* part_003: the Overpass answer is OSM JSON; a way of at least 4 ring points
\* becomes a Polygon, a relation with outer ways a MultiPolygon
WaterElementChoices ==
  {<<>>,
   <<[etype |-> "way", nodes |-> 3, closed |-> TRUE]>>,
   <<[etype |-> "node", nodes |-> 1, closed |-> FALSE],
     [etype |-> "relation", nodes |-> 1, closed |-> FALSE]>>,
   <<[etype |-> "relation", nodes |-> 0, closed |-> FALSE]>>}

RingLength(e) == IF e.nodes > 0 /\ ~e.closed THEN e.nodes + 1 ELSE e.nodes

RECURSIVE ElementsToFeatures(_, _)
ElementsToFeatures(s, es) ==
  IF es = <<>> THEN <<>>
  ELSE LET e == Head(es)
           rest == ElementsToFeatures(s, Tail(es))
       IN IF e.etype = "way" /\ RingLength(e) >= 4
          THEN <<ServerFeature(s, "Polygon", NoProps, NoBox, NoBox)>> \o rest
          ELSE IF e.etype = "relation" /\ e.nodes > 0
          THEN <<ServerFeature(s, "MultiPolygon", NoProps, NoBox, NoBox)>> \o rest
          ELSE rest

\* the value fetchWaterGeometry stores once its request has settled
WaterResults(bld, s) ==
  {Null}
  \cup (IF bld = "part_002"
        THEN {LET fs == FilterFeatures([i \in 1..Len(g) |->
                                          ServerFeature(s, g[i], NoProps, NoBox, NoBox)])
              IN IF fs # <<>> THEN FeatureCollection(fs) ELSE Null :
                g \in WaterFeatureChoices}
        ELSE {LET fs == ElementsToFeatures(s, es)
              IN IF fs # <<>> THEN FeatureCollection(fs) ELSE Null :
                es \in WaterElementChoices})

\* fetchWaterGeometry: the Overpass request has settled
WaterResponse(s) ==
  /\ waterReq[s] # NoBox
  /\ \E w \in WaterResults(build, s) : waterGeometry' = w
  /\ waterReq' = [waterReq EXCEPT ![s] = NoBox]
  /\ UNCHANGED <<build, runs, nStarted, selectedCountryGeometry, highlightCircle,
                 overlayMetrics, clickedLocation, apiData, isLoadingApi, isGeneratingGrid,
                 regionAnalysis, selectedRegion, published, calc>>

\* ------------------------------------------------- analyzeRegion (part_003)

\* analyzeRegion up to its first await (the forward search of the place name)
analyzeRegion ==
  /\ build = "part_003"
  /\ CanStart
  /\ nStarted' = nStarted + 1
  /\ isGeneratingGrid' = TRUE
  /\ waterGeometry' = Null
  /\ overlayMetrics' = Null
  /\ runs' = [runs EXCEPT ![nStarted + 1] =
                [IdleRun EXCEPT !.pc = "geocode", !.kind = "analyze"]]
  /\ UNCHANGED <<build, waterReq, selectedCountryGeometry, highlightCircle, clickedLocation,
                 apiData, isLoadingApi, regionAnalysis, selectedRegion, published, calc>>

\* what the jsonv2 search answers: nothing (the request throws, or the list is
\* empty), or a location with or without a boundingbox and with the geometry
\* type of its geojson ("none": no geojson)
AnalyzeAnswers ==
  {[found |-> FALSE, geojson |-> "none", boundingbox |-> NoBox]}
  \cup {[found |-> TRUE, geojson |-> g, boundingbox |-> b] :
          g \in {"none", "Point", "Polygon"}, b \in {NoBox, AsNominatimBbox(SmallBox)}}

\* buildFeatureFromGeometry: the Feature wrapped around location.geojson
buildFeatureFromGeometry(s, gtype, properties) ==
  ServerFeature(s, gtype, properties, NoBox, NoBox)

\* analyzeRegion: the forward search has settled
AnalyzeGeocodeResponse(s) ==
  /\ runs[s].pc = "geocode"
  /\ \E location \in AnalyzeAnswers :
       LET r == [runs[s] EXCEPT !.propName = <<"display", s>>,
                                !.countryName = <<"display", s>>]
           fallbackBounds == <<parseFloat(location.boundingbox[1]),
                               parseFloat(location.boundingbox[3]),
                               parseFloat(location.boundingbox[2]),
                               parseFloat(location.boundingbox[4])>>
           stops == [runs EXCEPT ![s] = DoneRun]
       IN IF ~location.found
          THEN \* Location not found, or the request threw: finally
               /\ isGeneratingGrid' = FALSE
               /\ runs' = stops
               /\ UNCHANGED <<selectedCountryGeometry, highlightCircle, waterGeometry,
                              waterReq>>
          ELSE IF location.boundingbox = NoBox
          THEN \* boundingBox[0] throws a TypeError after the geometry was cleared
               /\ isGeneratingGrid' = FALSE
               /\ selectedCountryGeometry' = Null
               /\ runs' = stops
               /\ UNCHANGED <<highlightCircle, waterGeometry, waterReq>>
          ELSE IF location.geojson # "none"
          THEN LET sanitized ==
                     applySanitized(buildFeatureFromGeometry(s, location.geojson,
                                                             NameProps(r.propName)),
                                    fallbackBounds, NameProps(r.propName))
               IN \* applied is true: the box always yields a rectangle
                  /\ selectedCountryGeometry' = sanitized
                  /\ highlightCircle' = IF sanitized # Null THEN Null ELSE highlightCircle
                  /\ AnalyzeAwaitMetrics(s, r, fallbackBounds)
                  /\ UNCHANGED isGeneratingGrid
          ELSE /\ selectedCountryGeometry' = Null
               /\ runs' = [runs EXCEPT ![s] =
                             [r EXCEPT !.pc = "reverse", !.zoomIdx = 1, !.countryName = NoName,
                                       !.fallbackBounds = fallbackBounds,
                                       !.lastBounds = fallbackBounds]]
               /\ UNCHANGED <<highlightCircle, waterGeometry, waterReq, isGeneratingGrid>>
  /\ UNCHANGED <<build, nStarted, overlayMetrics, clickedLocation, apiData, isLoadingApi,
                 regionAnalysis, selectedRegion, published, calc>>

\* x || d on an optional number
OrDefault(x, d) == IF x = NullNum \/ x = Num(0) THEN d ELSE x[1]

\* analyzeRegion: the metric batch has settled
AnalyzeMetricsResponse(s) ==
  /\ runs[s].pc = "ametrics"
  /\ \E resp \in MetricOutcomes(s) :
       IF resp.reject
       THEN UNCHANGED <<regionAnalysis, overlayMetrics>>
       ELSE LET temp == OrDefault(resp.temp, 22)
                aqi == OrDefault(resp.aq, 50)
                flood == OrDefault(resp.flood, 30)
                riskScore == calculateUrbanRiskScore(temp, aqi, flood)
            IN /\ regionAnalysis' =
                    [name |-> runs[s].countryName, temperature |-> temp, airQuality |-> aqi,
                     floodRisk |-> flood, urbanRiskScore |-> riskScore,
                     habitability |-> getHabitability(riskScore)]
               /\ overlayMetrics' = [temperature |-> Num(temp), airQuality |-> Num(aqi),
                                     floodRisk |-> Num(flood)]
  /\ isGeneratingGrid' = FALSE
  /\ runs' = [runs EXCEPT ![s] = DoneRun]
  /\ UNCHANGED <<build, nStarted, waterReq, selectedCountryGeometry, highlightCircle,
                 waterGeometry, clickedLocation, apiData, isLoadingApi, selectedRegion,
                 published, calc>>

\* ------------------------------------------------------- the pure functions

InitCalc ==
  \E c \in
  {[op |-> "input", lat |-> lat, lng |-> lng, outLat |-> 0, outLng |-> 0,
    againLat |-> 0, againLng |-> 0] :
     lat \in -MaxCalcLat..MaxCalcLat, lng \in -MaxCalcLng..MaxCalcLng} :
     InitOf("part_002", c)

\* the first two statements of handleMapClick
Normalize ==
  /\ calc.op = "input"
  /\ calc' = [calc EXCEPT !.op = "normalized", !.outLat = normalizedLat(calc.lat),
                          !.outLng = normalizedLng(calc.lng)]
  /\ UNCHANGED <<build, runs, nStarted, waterReq, uiVars, published>>

\* the normalized coordinate is clicked again: the same two statements on it
NormalizeAgain ==
  /\ calc.op = "normalized"
  /\ calc' = [calc EXCEPT !.op = "renormalized",
                          !.againLat = normalizedLat(calc.outLat),
                          !.againLng = normalizedLng(calc.outLng)]
  /\ UNCHANGED <<build, runs, nStarted, waterReq, uiVars, published>>

NextCalc == Normalize \/ NormalizeAgain

SpecCalc == InitCalc /\ [][NextCalc]_vars

\* map clicks and place-name analyses of part_003
NextA ==
  \/ \E p \in ClickPoints : handleMapClick(p)
  \/ analyzeRegion
  \/ \E s \in Runs : ReverseResponse(s)
  \/ \E s \in Runs : CountryResponse(s)
  \/ \E s \in Runs : ForwardResponse(s)
  \/ \E s \in Runs : MetricsResponse(s)
  \/ \E s \in Runs : AnalyzeGeocodeResponse(s)
  \/ \E s \in Runs : AnalyzeMetricsResponse(s)
  \/ \E s \in Runs : WaterResponse(s)

Next ==
  \/ \E p \in ClickPoints : handleMapClick(p)
  \/ \E p \in SearchPoints : searchResultEffect(p)
  \/ \E s \in Runs : ReverseResponse(s)
  \/ \E s \in Runs : CountryResponse(s)
  \/ \E s \in Runs : ForwardResponse(s)
  \/ \E s \in Runs : MetricsResponse(s)
  \/ \E s \in Runs : WaterResponse(s)

Spec == Init /\ [][Next]_vars
Spec3 == Init3 /\ [][Next]_vars
SpecA == Init3 /\ [][NextA]_vars


\* ------------------------------------------------- the sanitizer on its own

MaxFeatures == 3

GeometryTypes == {"Point", "LineString", "Polygon", "MultiPolygon"}

\* the i-th feature of an input, with a geometry of type gtype
InputFeature(i, gtype) == ServerFeature(i, gtype, NoProps, NoBox, NoBox)

\* what a caller may hand to the sanitizer: null, the error body of a geocoder,
\* an object that says it is a FeatureCollection and has no features, a single
\* Feature, and collections of up to MaxFeatures features of every type
InitSan ==
  \E x \in
  {Null, [type |-> "error"], [type |-> "FeatureCollection"]}
  \cup {InputFeature(1, g) : g \in GeometryTypes}
  \cup UNION {{FeatureCollection([i \in 1..n |-> InputFeature(i, g[i])]) :
                 g \in [1..n -> GeometryTypes]} : n \in 0..MaxFeatures} :
     InitOf("part_002", [op |-> "sanitizeInput", input |-> x, out |-> Null])

\* one call of sanitizeFeatureCollection
Sanitize ==
  /\ calc.op = "sanitizeInput"
  /\ calc' = [calc EXCEPT !.op = "sanitized", !.out = sanitizeFeatureCollection(calc.input)]
  /\ UNCHANGED <<build, runs, nStarted, waterReq, uiVars, published>>

NextSan == Sanitize

SpecSan == InitSan /\ [][NextSan]_vars

\* ------------------------------------------- bounds extraction on its own

MaxBoxLen == 5

\* canonical [south, west, north, east] boxes the upstream arrays are written from
CanonBoxes == Boxes \cup {<<20, 10, 40, 30>>, <<-10, -20, 0, 0>>}

\* the array an upstream format writes for the canonical box c
Upstream(order, c) == IF order = "geojson" THEN AsGeoJsonBbox(c) ELSE AsNominatimBbox(c)

\* the array a, the array with one entry that is no number, and arrays of
\* other lengths
ArrayVariants(a) ==
  {a}
  \cup {[a EXCEPT ![k] = NotANumber] : k \in 1..4}
  \cup {[i \in 1..n |-> a[((i - 1) % 4) + 1]] : n \in (0..MaxBoxLen) \ {4}}

\* a geocoding body carrying the array: GeoJSON bbox at the top level, Nominatim
\* boundingbox in the properties of its feature
BoxData(order, raw) ==
  IF order = "geojson" THEN GeoJsonAnswer(1, <<"Point">>, NoProps, raw, NoBox)
  ELSE GeoJsonAnswer(1, <<"Point">>, NoProps, NoBox, raw)

InitBox ==
  \E x \in
  UNION {{[op |-> "boundsInput", canon |-> c, order |-> o, raw |-> r, out |-> NoBox] :
            r \in ArrayVariants(Upstream(o, c))} :
           c \in CanonBoxes, o \in {"geojson", "nominatim"}} :
     InitOf("part_002", x)

\* one call of extractBoundsFromResponse
ExtractBounds ==
  /\ calc.op = "boundsInput"
  /\ calc' = [calc EXCEPT !.op = "boundsExtracted",
                          !.out = extractBoundsFromResponse(BoxData(calc.order, calc.raw))]
  /\ UNCHANGED <<build, runs, nStarted, waterReq, uiVars, published>>

NextBox == ExtractBounds

SpecBox == InitBox /\ [][NextBox]_vars

\* ------------------------------------------------ the severity classifiers

MaxMetric == 250

SEVERITY_COLORS ==
  [low |-> "#22c55e", moderate |-> "#eab308", high |-> "#f97316", critical |-> "#dc2626"]

\* Number.isFinite(x) ? x : 0 on an optional number; a comparison of null with a
\* number converts it to 0 as well
FiniteOrZero(x) == IF x = NullNum THEN 0 ELSE x[1]

temperatureSeverityColorInclusive(temperature) ==
  LET value == FiniteOrZero(temperature)
  IN IF value <= 20 THEN SEVERITY_COLORS.low
     ELSE IF value <= 30 THEN SEVERITY_COLORS.moderate
     ELSE IF value <= 40 THEN SEVERITY_COLORS.high
     ELSE SEVERITY_COLORS.critical
temperatureSeverityColor(temperature) ==
  LET value == FiniteOrZero(temperature)
  IN IF value < 20 THEN SEVERITY_COLORS.low
     ELSE IF value < 30 THEN SEVERITY_COLORS.moderate
     ELSE IF value < 40 THEN SEVERITY_COLORS.high
     ELSE SEVERITY_COLORS.critical

airQualitySeverityColor(aqi) ==
  LET value == FiniteOrZero(aqi)
  IN IF value <= 50 THEN SEVERITY_COLORS.low
     ELSE IF value <= 100 THEN SEVERITY_COLORS.moderate
     ELSE IF value <= 200 THEN SEVERITY_COLORS.high
     ELSE SEVERITY_COLORS.critical

floodSeverityColor(floodRisk) ==
  LET value == FiniteOrZero(floodRisk)
  IN IF value <= 30 THEN SEVERITY_COLORS.low
     ELSE IF value <= 60 THEN SEVERITY_COLORS.moderate
     ELSE IF value <= 80 THEN SEVERITY_COLORS.high
     ELSE SEVERITY_COLORS.critical

combinedRiskSeverityColor(riskScore) ==
  LET value == FiniteOrZero(riskScore)
  IN IF value <= 30 THEN SEVERITY_COLORS.low
     ELSE IF value <= 50 THEN SEVERITY_COLORS.moderate
     ELSE IF value <= 70 THEN SEVERITY_COLORS.high
     ELSE SEVERITY_COLORS.critical

\* getRiskLevel of the sidebar data cards
getRiskLevel(value, type) ==
  LET v == FiniteOrZero(value)
  IN IF type = "temperature"
     THEN IF v < 20 THEN "low" ELSE IF v < 30 THEN "moderate" ELSE "high"
     ELSE IF type = "airQuality"
     THEN IF v < 50 THEN "low" ELSE IF v < 100 THEN "moderate" ELSE "high"
     ELSE IF v < 30 THEN "low" ELSE IF v < 60 THEN "moderate" ELSE "high"

\* the fill colour of the map for one metric: the first three cases of overlayFillColor
metricFillColor(type, value) ==
  IF type = "temperature" THEN temperatureSeverityColor(value)
  ELSE IF type = "airQuality" THEN airQualitySeverityColor(value)
  ELSE floodSeverityColor(value)

InitSev ==
  \E x \in
  {[op |-> "severityInput", type |-> t, value |-> v, mapColor |-> "", cardRisk |-> ""] :
     t \in {"temperature", "airQuality", "floodRisk"},
     v \in {NullNum} \cup {Num(n) : n \in -MaxMetric..MaxMetric}} :
     InitOf("part_002", x)

\* the map colours a region and the sidebar shows the card of the same metric
Classify ==
  /\ calc.op = "severityInput"
  /\ calc' = [calc EXCEPT !.op = "classified",
                          !.mapColor = metricFillColor(calc.type, calc.value),
                          !.cardRisk = getRiskLevel(calc.value, calc.type)]
  /\ UNCHANGED <<build, runs, nStarted, waterReq, uiVars, published>>

NextSev == Classify

SpecSev == InitSev /\ [][NextSev]_vars

\* ------------------------------------------------------- the risk scores

MaxTemp == 100
MaxAqi == 1000
MaxFlood == 200
MaxBelowZero == 50

\* getCombinedRiskScore of the sidebar.  With t3 = 3 * tempScore, a2 = 2 * aqiScore:
\*   tempScore * 0.3 + aqiScore * 0.35 + floodScore * 0.35
\*     = (4 * t3 + 7 * a2 + 14 * floodScore) / 40
\* and Math.round(x) is floor(x + 1/2).  (Exact arithmetic: the rounding of a
\* sum that lies on a half may differ by one in floating point.)
getCombinedRiskScore(temp, aqi, flood) ==
  LET t3 == Min(300, Max(0, (temp - 10) * 10))
      a2 == Min(200, aqi)
      floodScore == Min(100, flood)
  IN (4 * t3 + 7 * a2 + 14 * floodScore + 20) \div 40

\* getCombinedRiskLevel of the sidebar
getCombinedRiskLevel(temp, aqi, flood) ==
  LET score == getCombinedRiskScore(temp, aqi, flood)
  IN IF score < 30 THEN "low" ELSE IF score < 60 THEN "moderate" ELSE "high"

\* overlayFillColor of the map; "null" when nothing is coloured
overlayFillColor(activeOverlay, metrics) ==
  IF metrics = Null THEN "null"
  ELSE IF activeOverlay = "temperature" THEN temperatureSeverityColor(metrics.temperature)
  ELSE IF activeOverlay = "air-quality" THEN airQualitySeverityColor(metrics.airQuality)
  ELSE IF activeOverlay = "flood" THEN floodSeverityColor(metrics.floodRisk)
  ELSE IF activeOverlay = "combined"
  THEN combinedRiskSeverityColor(
         Num(calculateUrbanRiskScore(FiniteOrZero(metrics.temperature),
                                     FiniteOrZero(metrics.airQuality),
                                     FiniteOrZero(metrics.floodRisk))))
  ELSE "null"

\* metric values the scores are computed for: every boundary of the buckets and
\* its successor, and the ends of the ranges
InitRisk ==
  \E x \in
  {[op |-> "riskInput", temp |-> t, aqi |-> a, flood |-> f, urban |-> 0, composite |-> 0,
    mapColor |-> "", cardRisk |-> ""] :
     t \in {t \in -MaxBelowZero..MaxTemp : t % 5 \in {0, 1}},
     a \in {a \in 0..MaxAqi : a % 50 \in {0, 1, 10}},
     f \in {f \in -MaxBelowZero..MaxFlood : f % 10 \in {0, 1}}} :
     InitOf("part_002", x)

\* the scores of one region: the urban planning score, the Combined Risk card of
\* the sidebar, and the fill of the map under the 'combined' overlay
Score ==
  /\ calc.op = "riskInput"
  /\ LET metrics == [temperature |-> Num(calc.temp), airQuality |-> Num(calc.aqi),
                     floodRisk |-> Num(calc.flood)]
     IN calc' = [calc EXCEPT
                   !.op = "scored",
                   !.urban = calculateUrbanRiskScore(calc.temp, calc.aqi, calc.flood),
                   !.composite = getCombinedRiskScore(calc.temp, calc.aqi, calc.flood),
                   !.mapColor = overlayFillColor("combined", metrics),
                   !.cardRisk = getCombinedRiskLevel(calc.temp, calc.aqi, calc.flood)]
  /\ UNCHANGED <<build, runs, nStarted, waterReq, uiVars, published>>

NextRisk == Score

SpecRisk == InitRisk /\ [][NextRisk]_vars

\* ------------------------------------------------------- the overlay legend

OverlayTypes == {"none", "temperature", "air-quality", "flood", "combined"}

\* Boolean(x) of an object-valued state hook
Boolean(x) == x # Null

\* the OverlayState the host holds: the onOverlayStateChange effect pushes it in
\* the commit of every change of overlayMetrics or selectedCountryGeometry
overlayState ==
  [hasGeometry |-> Boolean(selectedCountryGeometry), overlayMetrics |-> overlayMetrics]

\* showLegend of OverlayControls, and the same condition of the legend of the
\* region cards
showLegendWithoutGeometry(activeOverlay, state) ==
  activeOverlay # "none" /\ state.overlayMetrics # Null
showLegend(activeOverlay, state) ==
  activeOverlay # "none" /\ state.overlayMetrics # Null /\ state.hasGeometry

\* ------------------------------------------------- the prediction API routes

\* how the external data service (NASA POWER, WAQI) answers a route's request:
\* the fetch rejects, a non-2xx status, a body without usable data, or data
ServiceOutcomes == {"network-error", "http-error", "no-data", "data"}

\* the JSON answer of a route
RouteAnswer(success, status, value, dataSource) ==
  [success |-> success, status |-> status, value |-> value, dataSource |-> dataSource]

\* fetchNASAPowerPrecipitation: every error is caught and becomes null; annual is
\* Math.round(avgDailyPrec * 365), recent the average of the last seven days
fetchNASAPowerPrecipitation(service, annual, recent) ==
  IF service # "data" THEN Null
  ELSE IF annual < 0 \/ annual > 15000 THEN Null
  ELSE [type |-> "power", annualPrecipitation |-> annual, recentDailyAverage |-> recent,
        dataAvailable |-> TRUE]

\* getRiskLevel of the flood route
floodRiskLevel(risk) == IF risk <= 30 THEN "Low" ELSE IF risk <= 60 THEN "Moderate" ELSE "High"

\* fetchGIBSFloodRiskData; season is Math.abs(Math.sin((month / 12) * 2 * Math.PI)) * 20
\* and random400 is Math.random() * 400
fetchGIBSFloodRiskData(lat, nasaPowerData, season, random400) ==
  LET absLat == IF lat < 0 THEN -lat ELSE lat
      coastalFactor == IF absLat < 40 THEN 25 ELSE 10
      lowLandFactor == IF absLat < 50 THEN 15 ELSE 5
      baseRisk == coastalFactor + lowLandFactor + season
      annualPrecipitation == IF nasaPowerData # Null THEN nasaPowerData.annualPrecipitation
                             ELSE 600 + baseRisk * 15 + random400
      precipitationSource == IF nasaPowerData # Null THEN "NASA POWER (Real Satellite Data)"
                             ELSE "Geographic Model Estimate"
      recentPrecFactor == IF nasaPowerData # Null /\ nasaPowerData.recentDailyAverage # 0
                          THEN Min(2 * nasaPowerData.recentDailyAverage, 20) ELSE 0
      \* Math.round(Math.min(annual / 2000 * 40, 40) + the whole-number factors)
      floodRisk == Min(coastalFactor + lowLandFactor + recentPrecFactor
                         + (Min(annualPrecipitation, 2000) + 25) \div 50, 100)
  IN [risk |-> floodRisk, riskLevel |-> floodRiskLevel(floodRisk),
      precipitation |-> annualPrecipitation, nasaPowerData |-> nasaPowerData,
      source |-> precipitationSource]

\* POST of /api/predict/flood: status 500 only when something throws, which the
\* request body can cause and the data service cannot
floodPOST(bodyOk, lat, service, annual, recent, season, random400) ==
  IF ~bodyOk
  THEN RouteAnswer(FALSE, 500, NullNum, "none")
  ELSE LET gibsData == fetchGIBSFloodRiskData(
                         lat, fetchNASAPowerPrecipitation(service, annual, recent),
                         season, random400)
       IN RouteAnswer(TRUE, 200, Num(gibsData.risk), gibsData.source)

\* fetchWAQIData: the nearest station, then the stations found by name; every
\* error is caught, and an AQI that is not a positive number is no data
fetchWAQIData(service, aqi) ==
  IF service # "data" THEN Null
  ELSE IF aqi <= 0 THEN Null
  ELSE [type |-> "waqi", aqi |-> aqi, dataAvailable |-> TRUE]

\* fetchGIBSAirQualityData; seasonal is |sin((month / 12) * 2 * PI)| * 15,
\* geoVariation |sin(lat * lng * 0.1)| * 25, randomVariation Math.random() * 30 - 10
fetchGIBSAirQualityData(lat, waqiData, seasonal, geoVariation, randomVariation) ==
  LET absLat == IF lat < 0 THEN -lat ELSE lat
      urbanFactor == IF absLat < 50 THEN 20 ELSE 5
      baseAQI == 35 + urbanFactor
      currentAQI == IF waqiData # Null THEN waqiData.aqi
                    ELSE Max(10, baseAQI + seasonal + geoVariation + randomVariation)
  IN [aqi |-> currentAQI, waqiData |-> waqiData,
      source |-> IF waqiData # Null THEN "WAQI (World Air Quality Index)"
                 ELSE "NASA GIBS MODIS/OMI Air Quality Data"]

\* POST of /api/predict/air-quality
airQualityPOST(bodyOk, lat, service, aqi, seasonal, geoVariation, randomVariation) ==
  IF ~bodyOk
  THEN RouteAnswer(FALSE, 500, NullNum, "none")
  ELSE LET gibsData == fetchGIBSAirQualityData(lat, fetchWAQIData(service, aqi),
                                               seasonal, geoVariation, randomVariation)
       IN RouteAnswer(TRUE, 200, Num(gibsData.aqi), gibsData.source)

\* the requests the routes are called with: latitudes on both sides of the 40
\* and 50 degree limits, the service outcomes, and samples of the data, of the
\* month and of Math.random()
RouteLats == {-60, 0, 45, 60}

RouteRequest(route, bodyOk, lat, service, amount, recent, season, geo, random) ==
  [op |-> "routeRequest", route |-> route, bodyOk |-> bodyOk, lat |-> lat,
   service |-> service, amount |-> amount, recent |-> recent, season |-> season,
   geo |-> geo, random |-> random, answer |-> RouteAnswer(FALSE, 0, NullNum, "none")]

InitRoute ==
  \E x \in
  ({RouteRequest("flood", b, lat, sv, amount, recent, season, 0, random) :
     b \in BOOLEAN, lat \in RouteLats, sv \in ServiceOutcomes,
     amount \in {0, 1500, 3000, 16000}, recent \in {0, 5, 20}, season \in {0, 10, 20},
     random \in {0, 200}}
  \cup
  {RouteRequest("air-quality", b, lat, sv, amount, 0, season, geo, random) :
     b \in BOOLEAN, lat \in RouteLats, sv \in ServiceOutcomes,
     amount \in {0, 42, 180}, season \in {0, 15}, geo \in {0, 25}, random \in {-10, 5}}) :
     InitOf("part_002", x)

\* one request to a prediction route is answered
AnswerRoute ==
  /\ calc.op = "routeRequest"
  /\ calc' = [calc EXCEPT
                !.op = "answered",
                !.answer = IF calc.route = "flood"
                           THEN floodPOST(calc.bodyOk, calc.lat, calc.service, calc.amount,
                                          calc.recent, calc.season, calc.random)
                           ELSE airQualityPOST(calc.bodyOk, calc.lat, calc.service, calc.amount,
                                               calc.season, calc.geo, calc.random)]
  /\ UNCHANGED <<build, runs, nStarted, waterReq, uiVars, published>>

NextRoute == AnswerRoute

SpecRoute == InitRoute /\ [][NextRoute]_vars

\* ------------------------------------- one geometry resolution, with its trace

\* the requests one resolution has issued so far and what each was answered:
\* calc.steps is written by no handler and only records their inputs
TraceStep(step, zoom, resp, name) ==
  [step |-> step, zoom |-> zoom, throw |-> resp.throw, data |-> resp.data, name |-> name]

Traced(entry) == calc' = [calc EXCEPT !.steps = Append(@, entry)]

InitCascade == InitOf("part_002", [op |-> "trace", steps |-> <<>>])

\* the only selection of the behaviour: a map click or a search result
TracedClick == nStarted = 0 /\ \E p \in ClickPoints : handleMapClick(p)
TracedSearch == nStarted = 0 /\ \E p \in SearchPoints : searchResultEffect(p)

TracedReverse ==
  \E resp \in Outcomes(ReverseAnswers(1)) :
     /\ ReverseStep(1, resp)
     /\ Traced(TraceStep("reverse", zoomLevels[runs[1].zoomIdx], resp, NoName))

\* the zoom-3 request: it fails or carries no name (NoName), or it names the country
TracedCountry ==
  \E countryName \in CountryOutcomes(1) :
     /\ CountryStep(1, countryName)
     /\ Traced(TraceStep("country", 3, [throw |-> countryName = NoName, data |-> Null],
                         countryName))

TracedForward ==
  \E resp \in Outcomes(ForwardAnswers(1)) :
     /\ ForwardStep(1, resp)
     /\ Traced(TraceStep("forward", 0, resp, runs[1].countryName))

NextCascade ==
  \/ TracedClick
  \/ TracedSearch
  \/ TracedReverse
  \/ TracedCountry
  \/ TracedForward

SpecCascade == InitCascade /\ [][NextCascade]_vars

\* every request settles: fetch resolves or rejects
SpecCascadeFair ==
  SpecCascade /\ WF_vars(TracedReverse) /\ WF_vars(TracedCountry) /\ WF_vars(TracedForward)

\* ------------------------------------------------------------- the claims

Resolving == {s \in Runs : runs[s].pc \in {"geocode", "reverse", "country", "forward"}}
Settled == nStarted >= 1 /\ \A s \in Runs : runs[s].pc \in {"idle", "done"}

\* the run a resolved name was answered for (0: a placeholder of the handler)
NameOwner(n) == IF n[1] \in {"city", "country", "display", "search"} THEN n[2] ELSE 0

\* the runs whose answers the features of a collection came from (0: a rectangle)
FeatureOwners(fc) == IF fc = Null THEN {} ELSE {fc.features[i].req : i \in 1..Len(fc.features)}

\* C1: stale-selection discard for geometry.  Once no geometry resolution is in
\* flight any more, the displayed geometry and the resolved name of the popup are
\* the ones resolved for the latest selection, never those of an earlier one.
C1_StaleGeometryDiscarded ==
  (nStarted >= 1 /\ Resolving = {}) =>
     /\ FeatureOwners(selectedCountryGeometry) \subseteq {0, nStarted}
     /\ clickedLocation # Null => NameOwner(clickedLocation.name) \in {0, nStarted}

\* m holds no metric of a run other than s
MetricsBelongTo(m, s) ==
  /\ m.temperature \in {NullNum, Num(0), Num(TempOf(s))}
  /\ m.airQuality \in {NullNum, Num(0), Num(AqiOf(s))}
  /\ m.floodRisk \in {NullNum, Num(0), Num(FloodOf(s))}

\* C2: stale-selection discard for metrics.  Once every selection has settled, the
\* overlay metrics and the RegionData published to the sidebar belong to the
\* latest selection.
C2_StaleMetricsDiscarded ==
  Settled =>
     /\ overlayMetrics # Null => MetricsBelongTo(overlayMetrics, nStarted)
     /\ selectedRegion # Null => /\ MetricsBelongTo(selectedRegion, nStarted)
                                 /\ NameOwner(selectedRegion.name) \in {0, nStarted}

\* C3: the step that starts a selection (a run leaves "idle") leaves the region
\* geometry, the highlight circle and the water mask cleared, so they are cleared
\* before any response of the new selection is handled.
C3_StartClearsSelection ==
  [][\A s \in Runs :
       (runs[s].pc = "idle" /\ runs'[s].pc # "idle")
         => (selectedCountryGeometry' = Null /\ highlightCircle' = Null
             /\ waterGeometry' = Null)]_vars

\* a second selection has just started while the first, whose geometry had been
\* stored and whose water-mask was asked for, still awaits its metrics
C3_Witness ==
  /\ runs[1].pc = "metrics" /\ runs[1].success
  /\ runs[2].pc = "reverse" /\ runs[2].zoomIdx = 1
  /\ selectedCountryGeometry = Null /\ highlightCircle = Null /\ waterGeometry = Null

\* C4: the stored region geometry is null or a non-empty FeatureCollection of
\* Polygon and MultiPolygon features only.
C4_OnlyAreaGeometry ==
  \/ selectedCountryGeometry = Null
  \/ /\ selectedCountryGeometry.type = "FeatureCollection"
     /\ selectedCountryGeometry.features # <<>>
     /\ \A i \in 1..Len(selectedCountryGeometry.features) :
          selectedCountryGeometry.features[i].gtype \in {"Polygon", "MultiPolygon"}

\* the rectangle stored by a place-name analysis whose answer carried a geojson
\* that is not an area (the feature built from it is named after the place)
C4_Witness ==
  /\ selectedCountryGeometry # Null
  /\ \E s \in Runs : /\ runs[s].kind = "analyze" /\ runs[s].pc = "ametrics"
                     /\ selectedCountryGeometry.features[1].props["name"] = <<"display", s>>
                     /\ selectedCountryGeometry.features[1].ring # <<>>

\* C5: when geometry resolution has returned, its success flag is true exactly
\* when that call stored a non-null geometry.
C5_SuccessIffStored ==
  \A s \in Runs : runs[s].pc = "metrics" => (runs[s].success <=> runs[s].stored)

\* a resolution that succeeded by storing the rectangle of a bounding box
C5_Witness ==
  /\ selectedCountryGeometry # Null
  /\ selectedCountryGeometry.features[1].ring # <<>>
  /\ \E s \in Runs : runs[s].pc = "metrics" /\ runs[s].success /\ runs[s].stored

SelectedCoordinates ==
  {<<normalizedLat(p[1]), normalizedLng(p[2])>> : p \in ClickPoints} \cup SearchPoints

C7_PublishedOnce ==
  \A s \in Runs :
     /\ runs[s].pc \in {"idle", "reverse", "country", "forward", "metrics"}
          => published[s] = 0
     /\ runs[s].pc = "done" => published[s] = 1

\* a selection whose geometry resolution failed and whose metric batch rejected
\* has been published
C7_Witness ==
  /\ nStarted = 1 /\ runs[1].pc = "done" /\ published[1] = 1
  /\ highlightCircle # Null
  /\ selectedRegion # Null /\ selectedRegion.temperature = Num(0)

\* C8: when exactly one metric fetch of a selection fails, the two other metrics
\* are still written into the overlay metrics and the published RegionData.  (Only
\* the air-quality fetch fails in MetricOutcomes, so temperature and flood risk
\* of every settled batch come from fetches that succeeded.)
C8_PartialFailureKeepsOthers ==
  /\ overlayMetrics # Null =>
       /\ overlayMetrics.temperature \in {Num(TempOf(s)) : s \in Runs}
       /\ overlayMetrics.floodRisk \in {Num(FloodOf(s)) : s \in Runs}
  /\ selectedRegion # Null =>
       /\ selectedRegion.temperature \in {Num(TempOf(s)) : s \in Runs}
       /\ selectedRegion.floodRisk \in {Num(FloodOf(s)) : s \in Runs}

\* C9: a metric that could not be obtained is null in the published RegionData
\* and in the overlay metrics; 0 is never used for it.  (No route answers 0 in
\* MetricOutcomes, so a 0 always stands for a metric that was not obtained.)
C9_NoDataIsNull ==
  /\ overlayMetrics # Null =>
       /\ overlayMetrics.temperature # Num(0)
       /\ overlayMetrics.airQuality # Num(0)
       /\ overlayMetrics.floodRisk # Num(0)
  /\ selectedRegion # Null =>
       /\ selectedRegion.temperature # Num(0)
       /\ selectedRegion.airQuality # Num(0)
       /\ selectedRegion.floodRisk # Num(0)

\* C10: normalization clamps the latitude into [-90, 90] and wraps the longitude
\* into [-180, 180] (the result differs from the input by a multiple of 360);
\* (95, 185) becomes (90, -175).
C10_NormalizeInRange ==
  calc.op = "normalized" =>
     /\ calc.outLat >= -90 /\ calc.outLat <= 90
     /\ calc.outLat = (IF calc.lat > 90 THEN 90 ELSE IF calc.lat < -90 THEN -90 ELSE calc.lat)
     /\ calc.outLng >= -180 /\ calc.outLng <= 180
     /\ (calc.outLng - calc.lng) % 360 = 0
     /\ (calc.lat = 95 /\ calc.lng = 185) => (calc.outLat = 90 /\ calc.outLng = -175)

\* C11: normalization is idempotent: normalizing the normalized coordinate again
\* returns it unchanged, for every latitude and longitude.
C11_NormalizeIdempotent ==
  calc.op = "renormalized" =>
     (calc.againLat = calc.outLat /\ calc.againLng = calc.outLng)

\* a coordinate that normalization had changed (latitude clamped, longitude
\* wrapped) has been normalized a second time
C11_Witness ==
  /\ calc.op = "renormalized"
  /\ calc.lat = 95 /\ calc.lng = 185
  /\ calc.againLat = 90 /\ calc.againLng = -175

\* C12: the sanitizer is total: whatever it is given, it returns null or a
\* FeatureCollection and raises no error (its input is not changed: the call
\* only reads calc.input).
C12_SanitizerTotal ==
  calc.op = "sanitized" => calc.out.type \in {"null", "FeatureCollection"}

\* the features of a GeoJSON input, in their order
InputFeaturesOf(input) ==
  IF input = Null THEN <<>>
  ELSE IF input.type = "FeatureCollection" THEN input.features
  ELSE IF input.type = "Feature" THEN <<input>>
  ELSE <<>>

IsArea(f) == f.gtype \in {"Polygon", "MultiPolygon"}

\* C13: for null, a Feature, a FeatureCollection or an error body the sanitizer
\* returns a FeatureCollection of exactly the Polygon and MultiPolygon features
\* of the input, in their order, and null when there is none; one Polygon and
\* one LineString give exactly the Polygon.
C13_ExactlyAreaFeatures ==
  (calc.op = "sanitized" /\ (calc.input.type = "FeatureCollection"
                               => "features" \in DOMAIN calc.input))
    => LET kept == SelectSeq(InputFeaturesOf(calc.input), IsArea)
       IN /\ calc.out = IF kept = <<>> THEN Null
                        ELSE [type |-> "FeatureCollection", features |-> kept]
          /\ calc.input = FeatureCollection(<<InputFeature(1, "Polygon"),
                                              InputFeature(2, "LineString")>>)
               => calc.out = FeatureCollection(<<InputFeature(1, "Polygon")>>)

\* a mixed collection has been sanitized: its two area features are left, in
\* their order
C13_Witness ==
  /\ calc.op = "sanitized"
  /\ calc.input = FeatureCollection(<<InputFeature(1, "MultiPolygon"),
                                      InputFeature(2, "LineString"),
                                      InputFeature(3, "Polygon")>>)
  /\ calc.out = FeatureCollection(<<InputFeature(1, "MultiPolygon"),
                                    InputFeature(3, "Polygon")>>)

HasFourNumericEntries(raw) ==
  Len(raw) = 4 /\ \A i \in 1..4 : raw[i][1] \in {"number", "string"}

TierOfColor(c) == CHOOSE t \in DOMAIN SEVERITY_COLORS : SEVERITY_COLORS[t] = c

\* the tier of value v for ascending boundaries b, where the tier's upper
\* boundary belongs to it (inclusive) or to the next tier
TierBelow(v, b, inclusive) ==
  LET under(k) == IF inclusive THEN v <= b[k] ELSE v < b[k]
  IN IF under(1) THEN "low" ELSE IF under(2) THEN "moderate"
     ELSE IF under(3) THEN "high" ELSE "critical"

C16_CardTierIsMapTier ==
  (calc.op = "classified" /\ calc.value # NullNum) =>
     calc.cardRisk = TierOfColor(calc.mapColor)

\* C17: the urban planning score is 0.25 * tempRisk + 0.25 * aqiRisk + 0.5 * flood
\* rounded to the nearest whole number, with tempRisk 100/80/50/30/20 for
\* temperature > 35 / > 30 / > 25 / > 20 / otherwise and aqiRisk 100/80/60/40/20
\* for AQI > 200 / > 150 / > 100 / > 50 / otherwise; score(36, 210, 90) = 95; for
\* flood in [0, 100] the score is in [0, 100].
C17_UrbanRiskScore ==
  calc.op = "scored" =>
     LET tempRisk == CASE calc.temp > 35 -> 100 [] calc.temp \in 31..35 -> 80
                       [] calc.temp \in 26..30 -> 50 [] calc.temp \in 21..25 -> 30
                       [] calc.temp <= 20 -> 20
         aqiRisk == CASE calc.aqi > 200 -> 100 [] calc.aqi \in 151..200 -> 80
                      [] calc.aqi \in 101..150 -> 60 [] calc.aqi \in 51..100 -> 40
                      [] calc.aqi <= 50 -> 20
         sum4 == tempRisk + aqiRisk + 2 * calc.flood
     IN /\ 4 * calc.urban > sum4 - 2 /\ 4 * calc.urban <= sum4 + 2
        /\ (calc.temp = 36 /\ calc.aqi = 210 /\ calc.flood = 90) => calc.urban = 95
        /\ calc.flood \in 0..100 => calc.urban \in 0..100

\* the example of the claim has been scored
C17_Witness ==
  /\ calc.op = "scored"
  /\ calc.temp = 36 /\ calc.aqi = 210 /\ calc.flood = 90
  /\ calc.urban = 95

\* C18: the composite score of the sidebar lies in [0, 100] for every temperature
\* in [-50, 100], AQI in [0, 1000] and flood value in [-50, 200].
C18_CompositeInRange ==
  (calc.op = "scored" /\ calc.temp \in -50..100 /\ calc.aqi \in 0..1000
                      /\ calc.flood \in -50..200)
    => calc.composite \in 0..100

\* C19: under the 'combined' overlay the map is filled with the colour of the
\* tier of the composite score that the Combined Risk card displays.
C19_MapUsesCompositeScore ==
  calc.op = "scored" => calc.mapColor = combinedRiskSeverityColor(Num(calc.composite))

\* C20: fetchWaterGeometry issues no Overpass request for a bounding box whose
\* area (north - south) * (east - west) exceeds 100 square degrees: every
\* water-mask request in flight is for a box of at most 100 square degrees.
C20_NoWaterRequestForLargeBox ==
  \A s \in Runs :
     waterReq[s] # NoBox =>
        (waterReq[s][3] - waterReq[s][1]) * (waterReq[s][4] - waterReq[s][2]) <= 100

C22_ErrorWhenServiceUnavailable ==
  (calc.op = "answered" /\ calc.service \in {"network-error", "http-error"})
    => /\ ~calc.answer.success
       /\ calc.answer.status = 500
       /\ calc.answer.value = NullNum

\* the answer of a traced request carries a Polygon or MultiPolygon geometry
HasPolygonGeometry(entry) ==
  /\ ~entry.throw
  /\ entry.data # Null
  /\ \E i \in 1..Len(entry.data.features) :
       entry.data.features[i].gtype \in {"Polygon", "MultiPolygon"}

\* C23: the reverse requests of a resolution are for the zoom levels 14, 12, 10,
\* 8 in this order, one at a time and none skipped; a level whose answer carries
\* polygon geometry is the last request of the resolution, which then has
\* succeeded; the country-level and the forward request come only after all four
\* levels were answered without polygon geometry.
C23_CascadeOrder ==
  LET steps == calc.steps
      claimed == <<14, 12, 10, 8>>
  IN /\ \A i \in 1..Len(steps) :
          /\ steps[i].step = "reverse" => (i <= 4 /\ steps[i].zoom = claimed[i])
          /\ (steps[i].step = "reverse" /\ HasPolygonGeometry(steps[i]))
               => (i = Len(steps) /\ runs[1].pc = "metrics" /\ runs[1].success)
          /\ steps[i].step \in {"country", "forward"}
               => (i > 4 /\ \A j \in 1..4 : /\ steps[j].step = "reverse"
                                            /\ ~HasPolygonGeometry(steps[j]))
     /\ runs[1].pc = "reverse" => runs[1].zoomIdx = Len(steps) + 1
     /\ runs[1].pc \in {"country", "forward"} => Len(steps) >= 4

\* only the coarsest level answered with polygon geometry: all four levels were
\* asked in order and the resolution stopped there
C23_Witness ==
  /\ Len(calc.steps) = 4
  /\ \A i \in 1..3 : ~HasPolygonGeometry(calc.steps[i])
  /\ HasPolygonGeometry(calc.steps[4]) /\ calc.steps[4].zoom = 8
  /\ runs[1].pc = "metrics" /\ runs[1].success
  /\ selectedCountryGeometry # Null

\* C24: a failed request at a reverse zoom level, at the country-level fallback
\* or at the forward lookup never ends the resolution by itself: the next step
\* is taken, the resolution always returns to its caller, and it returns
\* success = false only after all four levels and the fallback steps have been
\* tried without polygon geometry.
C24_FailuresAreRecovered ==
  /\ [](
       LET steps == calc.steps
           CarriesName(entry) ==
             /\ ~entry.throw
             /\ entry.data # Null
             /\ entry.data.features # <<>>
             /\ \E k \in NameKeys : entry.data.features[1].props[k] # NoName
           n == Len(steps)
           returned == runs[1].pc = "metrics"
       IN /\ (n >= 1 /\ steps[n].step = "reverse" /\ steps[n].throw)
               => /\ ~returned
                  /\ IF n < 4 THEN runs[1].pc = "reverse" /\ runs[1].zoomIdx = n + 1
                     ELSE IF \E j \in 1..4 : CarriesName(steps[j]) THEN runs[1].pc = "forward"
                     ELSE runs[1].pc = "country"
          /\ (n >= 1 /\ steps[n].step = "country")
               => IF steps[n].name # NoName THEN runs[1].pc = "forward" ELSE returned
          /\ (n >= 1 /\ steps[n].step = "forward") => returned
          /\ (returned /\ ~runs[1].success)
               => /\ n >= 5
                  /\ \A j \in 1..4 : steps[j].step = "reverse" /\ ~HasPolygonGeometry(steps[j])
                  /\ \/ steps[n].step = "forward" /\ ~HasPolygonGeometry(steps[n])
                     \/ steps[n].step = "country" /\ steps[n].name = NoName)
  /\ (nStarted = 1) ~> (runs[1].pc = "metrics")

\* all four reverse requests failed, the country-level request named the
\* country, and the forward lookup stored its polygon
C24_Witness ==
  /\ Len(calc.steps) = 6
  /\ \A j \in 1..4 : calc.steps[j].throw
  /\ calc.steps[5].step = "country" /\ calc.steps[6].step = "forward"
  /\ runs[1].pc = "metrics" /\ runs[1].success
  /\ selectedCountryGeometry # Null

\* C25: when a resolution has returned, no answer carried polygon geometry and
\* some answer supplied a bounding box, the stored geometry is the closed
\* five-point rectangle of a supplied box and no fallback circle is shown, also
\* when no name was resolved or the forward lookup failed.
C25_RectangleWhenBoundsKnown ==
  LET steps == calc.steps
      SuppliedBounds(entry) ==
        IF entry.throw \/ entry.data = Null THEN NoBox
        ELSE extractBoundsFromResponse(entry.data)
      RectangleRing(b) ==
        << <<b[2], b[1]>>, <<b[4], b[1]>>, <<b[4], b[3]>>, <<b[2], b[3]>>, <<b[2], b[1]>> >>
      supplied == {SuppliedBounds(steps[i]) : i \in 1..Len(steps)} \ {NoBox}
  IN (/\ runs[1].pc = "metrics"
      /\ \A i \in 1..Len(steps) : ~HasPolygonGeometry(steps[i])
      /\ supplied # {})
       => /\ selectedCountryGeometry # Null
          /\ \E b \in supplied :
               selectedCountryGeometry.features[1].ring = RectangleRing(b)
          /\ highlightCircle = Null

\* C26: the metric fetches of a selection are issued without waiting for its
\* geometry resolution: while the resolution of a selection is in flight, its
\* metric batch has been issued (fetchApiData has set the loading flag) or has
\* already settled.
C26_MetricsIssuedWithGeometry ==
  \A s \in Runs :
     runs[s].pc \in {"reverse", "country", "forward"}
       => (isLoadingApi \/ overlayMetrics # Null)

\* C27: a water-mask query is started only for a selection whose geometry
\* resolution succeeded: in the step in which a run issues its water-mask
\* request, the resolution of that run has returned success = true.
C27_WaterOnlyAfterSuccess ==
  [][\A s \in Runs :
       (waterReq[s] = NoBox /\ waterReq'[s] # NoBox) => runs'[s].success]_vars

\* C28: a place-name analysis goes on to its metrics without the reverse cascade
\* only when the forward answer carried polygon geometry, which is then the
\* stored geometry; every other answer (also a Point with a bounding box) starts
\* the reverse cascade.
C28_CascadeUnlessPolygon ==
  [][\A s \in Runs :
       (runs[s].pc = "geocode" /\ runs'[s].pc = "ametrics")
         => /\ selectedCountryGeometry' # Null
            /\ \A i \in 1..Len(selectedCountryGeometry'.features) :
                 /\ selectedCountryGeometry'.features[i].req = s
                 /\ selectedCountryGeometry'.features[i].ring = <<>>]_vars

\* C29: the region geometry and the highlight circle are never both set, also
\* under overlapping selections whose responses arrive in any order.
C29_GeometryXorCircle ==
  ~(selectedCountryGeometry # Null /\ highlightCircle # Null)

\* C30: isLoadingApi is true in every state in which a metric batch of
\* fetchApiData is in flight, also when the batch of another selection has just
\* settled, and false when none is in flight.
C30_LoadingWhileBatchInFlight ==
  isLoadingApi <=> (\E s \in Runs : runs[s].pc = "metrics")

====
